---- MODULE Spec2Model ----
(***************************************************************************)
(* Model of vehicle_manager.py: the VehicleManager client and the remote   *)
(* collection resource {url}/vehicles it talks to.                         *)
(*                                                                         *)
(* An optional id (int | None) is a set: {} is None, {n} is the int n.     *)
(* Angles are kept in units of pi/12 (15 degrees); sin^2 in quarters, cos  *)
(* in halves, so the Haversine term P is exact in sixteenths.              *)
(*                                                                         *)
(* op, args, result, requests and caller describe the call in progress:    *)
(* the method, its arguments, what it returned or raised, the HTTP         *)
(* exchanges it made and the caller's Vehicle object after it.             *)
(***************************************************************************)
EXTENDS Integers, Sequences, FiniteSets, TLC

\* ---------------------------------------------------------------- bounds
MaxVehicles == 3
MaxId == 2
MaxParams == 2

\* ------------------------------------------------------------- constants
R_M == 6371000
Inf == 2000000000

None == {}
Some(n) == {n}
IdOf(i) == CHOOSE n \in i : TRUE

Names == {"Toyota", "Kia"}
Colors == {"red", "blue"}

Vehicle(name, color, latitude, longitude, id) ==
  [name |-> name, model |-> "Camry", year |-> 2021, color |-> color,
   price |-> 21000, latitude |-> latitude, longitude |-> longitude, id |-> id]

\* the vehicles a caller or the remote side may hold, without their id
Fleet ==
  { Vehicle("Toyota", "red", 0, 0, None),
    Vehicle("Toyota", "blue", 0, 60, None),
    Vehicle("Kia", "red", 60, -60, None) }

WithId(v, id) == [v EXCEPT !.id = id]

QueryIds == 0..MaxId
OptIds == {None} \cup {Some(n) : n \in 0..MaxId}

\* ----------------------------------------------------------------- state
VARIABLES remote, op, args, result, requests, caller

vars == <<remote, op, args, result, requests, caller>>

\* ------------------------------------------------------- sequence helpers
Distinct(s) == \A i, j \in 1..Len(s) : i # j => s[i].id # s[j].id

SeqsUpTo(S, n) == UNION {[1..k -> S] : k \in 0..n}

MaxOf(S) == CHOOSE m \in S : \A x \in S : x <= m

\* ---------------------------------------------------------- remote side
\* index of the record GET/PUT/DELETE {url}/vehicles/{id} addresses, 0 if none
RemoteIndex(coll, id) ==
  IF \E i \in 1..Len(coll) : coll[i].id = Some(id)
  THEN CHOOSE i \in 1..Len(coll) :
         /\ coll[i].id = Some(id)
         /\ \A j \in 1..(i - 1) : coll[j].id # Some(id)
  ELSE 0

Without(coll, k) == [i \in 1..(Len(coll) - 1) |-> IF i < k THEN coll[i] ELSE coll[i + 1]]

\* ---------------------------------------------------------------- results
Raised == [kind |-> "raise", vehicles |-> <<>>, value |-> 0]
ReturnedNone == [kind |-> "None", vehicles |-> <<>>, value |-> 0]
ReturnedVehicle(v) == [kind |-> "Vehicle", vehicles |-> <<v>>, value |-> 0]
ReturnedList(vs) == [kind |-> "list", vehicles |-> vs, value |-> 0]
ReturnedFloat(d) == [kind |-> "float", vehicles |-> <<>>, value |-> d]

NoArgs == [id1 |-> 0, id2 |-> 0, params |-> <<>>, vehicle |-> <<>>]

\* one HTTP exchange: the method sent and the status the remote side answered
Http(method, status) == [method |-> method, status |-> status]

\* what a call leaves behind: its result, the remote collection, the HTTP
\* exchanges it made, and the caller's Vehicle object (if one was passed)
Outcome(res, coll, reqs, obj) ==
  [result |-> res, remote |-> coll, requests |-> reqs, caller |-> obj]

\* Vehicle(**vehicle_data)
FromJson(data) ==
  [name |-> data.name, model |-> data.model, year |-> data.year,
   color |-> data.color, price |-> data.price, latitude |-> data.latitude,
   longitude |-> data.longitude, id |-> data.id]

\* ---------------------------------------------------------------- geodesy
Radians(deg) == deg \div 15

\* sin(x)**2, in quarters
SinSq(x) ==
  CASE x % 12 = 0 -> 0
    [] x % 12 = 2 -> 1
    [] x % 12 = 4 -> 3
    [] x % 12 = 6 -> 4
    [] x % 12 = 8 -> 3
    [] x % 12 = 10 -> 1

\* cos(x), in halves
Cos(x) ==
  CASE x = 0 -> 2
    [] x = 4 -> 1
    [] x = -4 -> 1

\* 2 * asin(sqrt(P)) in milliradians, P in sixteenths
AsinSqrt2 ==
  <<505, 723, 896, 1047, 1186, 1318, 1445, 1571,
    1696, 1823, 1955, 2094, 2246, 2419, 2636, 3142>>

Q(P) == IF P = 0 THEN 0 ELSE AsinSqrt2[P]

Coordinates(latitude, longitude) == [latitude |-> latitude, longitude |-> longitude]

HaversineP_la1_twice(la1, la2, d_la, d_lo) ==
  4 * SinSq(d_la \div 2) + Cos(la1) * Cos(la1) * SinSq(d_lo \div 2)

\* P, in sixteenths
HaversineP(la1, la2, d_la, d_lo) ==
  4 * SinSq(d_la \div 2) + Cos(la1) * Cos(la2) * SinSq(d_lo \div 2)

_get_distance(coord1, coord2) ==
  LET lo1 == Radians(coord1.longitude)
      lo2 == Radians(coord2.longitude)
      la1 == Radians(coord1.latitude)
      la2 == Radians(coord2.latitude)
      d_lo == lo2 - lo1
      d_la == la2 - la1
      P == HaversineP(la1, la2, d_la, d_lo)
  IN Q(P) * (R_M \div 1000)

\* ------------------------------------------------------------ operations
get_vehicles(coll) ==
  Outcome(ReturnedList([i \in 1..Len(coll) |-> FromJson(coll[i])]), coll,
          <<Http("GET", 200)>>, <<>>)

\* the inner loop of filter_vehicles: one append per matching key
RECURSIVE FilterKeysOf(_, _)
FilterKeysOf(vehicle_data, params) ==
  IF params = <<>> THEN <<>>
  ELSE LET key == Head(params)[1]
           value == Head(params)[2]
           hit == IF key \in DOMAIN vehicle_data /\ vehicle_data[key] = value
                  THEN <<FromJson(vehicle_data)>> ELSE <<>>
       IN hit \o FilterKeysOf(vehicle_data, Tail(params))

RECURSIVE FilterScan(_, _)
FilterScan(vehicles_data, params) ==
  IF vehicles_data = <<>> THEN <<>>
  ELSE FilterKeysOf(Head(vehicles_data), params)
         \o FilterScan(Tail(vehicles_data), params)

filter_vehicles(coll, params) ==
  Outcome(ReturnedList(FilterScan(coll, params)), coll, <<Http("GET", 200)>>, <<>>)

get_vehicle_twice(coll, id) ==
  LET k == RemoteIndex(coll, id)
  IN IF k = 0
     THEN Outcome(Raised, coll, <<Http("GET", 404), Http("GET", 404)>>, <<>>)
     ELSE Outcome(ReturnedVehicle(FromJson(coll[k])), coll,
                  <<Http("GET", 200), Http("GET", 200)>>, <<>>)

get_vehicle(coll, id) ==
  LET k == RemoteIndex(coll, id)
  IN IF k = 0
     THEN Outcome(Raised, coll, <<Http("GET", 404)>>, <<>>)
     ELSE Outcome(ReturnedVehicle(FromJson(coll[k])), coll, <<Http("GET", 200)>>, <<>>)

\* "if vehicle.id": neither None nor 0
Truthy(id) == id # None /\ id # Some(0)

NextIdNoIncrement(vehicles) ==
  MaxOf({IdOf(vehicles[i].id) : i \in {j \in 1..Len(vehicles) : Truthy(vehicles[j].id)}})

\* max(vehicle.id for vehicle in vehicles if vehicle.id) + 1
NextId(vehicles) ==
  MaxOf({IdOf(vehicles[i].id) : i \in {j \in 1..Len(vehicles) : Truthy(vehicles[j].id)}}) + 1

add_vehicle(coll, vehicle) ==
  LET listed == get_vehicles(coll)
      vehicles == listed.result.vehicles
  IN IF \A i \in 1..Len(vehicles) : ~Truthy(vehicles[i].id)
     THEN \* max() of an empty sequence: ValueError before data['id'] is set
          Outcome(Raised, coll, listed.requests, <<vehicle>>)
     ELSE LET data == WithId(vehicle, Some(NextId(vehicles)))
          IN Outcome(ReturnedVehicle(FromJson(data)), Append(coll, data),
                     listed.requests \o <<Http("POST", 201)>>, <<data>>)

update_vehicle(coll, vehicle) ==
  LET data == vehicle
      k == IF vehicle.id = None THEN 0 ELSE RemoteIndex(coll, IdOf(vehicle.id))
  IN IF k = 0
     THEN Outcome(Raised, coll, <<Http("PUT", 404)>>, <<vehicle>>)
     ELSE Outcome(ReturnedVehicle(FromJson(data)), [coll EXCEPT ![k] = data],
                  <<Http("PUT", 200)>>, <<vehicle>>)

delete_vehicle(coll, id) ==
  LET k == RemoteIndex(coll, id)
  IN IF k = 0
     THEN Outcome(ReturnedNone, coll, <<Http("DELETE", 404)>>, <<>>)
     ELSE Outcome(ReturnedNone, Without(coll, k), <<Http("DELETE", 200)>>, <<>>)

get_distance(coll, id1, id2) ==
  LET got1 == get_vehicle(coll, id1)
      got2 == get_vehicle(coll, id2)
  IN IF got1.result.kind = "raise"
     THEN Outcome(Raised, coll, got1.requests, <<>>)
     ELSE IF got2.result.kind = "raise"
     THEN Outcome(Raised, coll, got1.requests \o got2.requests, <<>>)
     ELSE LET vehicle1 == got1.result.vehicles[1]
              vehicle2 == got2.result.vehicles[1]
              coord1 == Coordinates(vehicle1.latitude, vehicle1.longitude)
              coord2 == Coordinates(vehicle2.latitude, vehicle2.longitude)
          IN Outcome(ReturnedFloat(_get_distance(coord1, coord2)), coll,
                     got1.requests \o got2.requests, <<>>)

Candidate_any(v, id) == TRUE

\* "if v.id != id"
Candidate(v, id) == v.id # Some(id)

Closer_or_equal(distance, min_distance) == distance <= min_distance

\* "if distance < min_distance"
Closer(distance, min_distance) == distance < min_distance

InitialNearest_reference(vehicle) == <<vehicle>>

\* "nearest_vehicle = None"; the nearest vehicle is a sequence of 0 or 1
InitialNearest(vehicle) == <<>>

\* the for loop of get_nearest_vehicle
RECURSIVE NearestScan(_, _, _, _, _)
NearestScan(vehicles, id, coord1, min_distance, nearest_vehicle) ==
  IF vehicles = <<>> THEN nearest_vehicle
  ELSE LET v == Head(vehicles)
           coord2 == Coordinates(v.latitude, v.longitude)
           distance == _get_distance(coord1, coord2)
       IN IF Candidate(v, id) /\ Closer(distance, min_distance)
          THEN NearestScan(Tail(vehicles), id, coord1, distance, <<v>>)
          ELSE NearestScan(Tail(vehicles), id, coord1, min_distance, nearest_vehicle)

get_nearest_vehicle(coll, id) ==
  LET listed == get_vehicles(coll)
      got == get_vehicle(coll, id)
      reqs == listed.requests \o got.requests
  IN IF got.result.kind = "raise"
     THEN Outcome(Raised, coll, reqs, <<>>)
     ELSE LET vehicle == got.result.vehicles[1]
              coord1 == Coordinates(vehicle.latitude, vehicle.longitude)
              nearest_vehicle == NearestScan(listed.result.vehicles, id, coord1,
                                             Inf, InitialNearest(vehicle))
          IN IF nearest_vehicle = <<>>
             THEN Outcome(ReturnedNone, coll, reqs, <<>>)
             ELSE Outcome(ReturnedVehicle(nearest_vehicle[1]), coll, reqs, <<>>)

\* ---------------------------------------------------------------- inputs
RemoteRecords == {WithId(b, i) : b \in Fleet, i \in OptIds}

CallerVehicles == {WithId(b, i) : b \in Fleet, i \in {None, Some(1)}}

Pairs ==
  {<<"name", n>> : n \in Names} \cup {<<"color", c>> : c \in Colors}
    \cup {<<"owner", "Bob">>}

ParamSets ==
  {p \in SeqsUpTo(Pairs, MaxParams) :
     \A i, j \in 1..Len(p) : i # j => p[i][1] # p[j][1]}

\* ----------------------------------------------------------- state machine
Init ==
  /\ remote \in SeqsUpTo(RemoteRecords, MaxVehicles)
  /\ Distinct(remote)
  /\ op = "idle"
  /\ args = NoArgs
  /\ result = ReturnedNone
  /\ requests = <<>>
  /\ caller = <<>>

\* a call is made when no call is in progress and runs to its return or raise
Do(name, a, out) ==
  /\ op = "idle"
  /\ op' = name
  /\ args' = a
  /\ result' = out.result
  /\ remote' = out.remote
  /\ requests' = out.requests
  /\ caller' = out.caller

GetVehicles == Do("get_vehicles", NoArgs, get_vehicles(remote))

FilterVehicles ==
  \E params \in ParamSets :
    Do("filter_vehicles", [NoArgs EXCEPT !.params = params],
       filter_vehicles(remote, params))

GetVehicle ==
  \E id \in QueryIds :
    Do("get_vehicle", [NoArgs EXCEPT !.id1 = id], get_vehicle(remote, id))

AddVehicle ==
  \E vehicle \in CallerVehicles :
    /\ Len(remote) < MaxVehicles
    /\ \A i \in 1..Len(remote) : remote[i].id # None => IdOf(remote[i].id) < MaxId
    /\ Do("add_vehicle", [NoArgs EXCEPT !.vehicle = <<vehicle>>],
          add_vehicle(remote, vehicle))

UpdateVehicle ==
  \E vehicle \in RemoteRecords :
    Do("update_vehicle", [NoArgs EXCEPT !.vehicle = <<vehicle>>],
       update_vehicle(remote, vehicle))

DeleteVehicle ==
  \E id \in QueryIds :
    Do("delete_vehicle", [NoArgs EXCEPT !.id1 = id], delete_vehicle(remote, id))

GetDistance ==
  \E id1, id2 \in QueryIds :
    Do("get_distance", [NoArgs EXCEPT !.id1 = id1, !.id2 = id2],
       get_distance(remote, id1, id2))

GetNearestVehicle ==
  \E id \in QueryIds :
    Do("get_nearest_vehicle", [NoArgs EXCEPT !.id1 = id],
       get_nearest_vehicle(remote, id))

\* the caller is done with the outcome of the call; the remote side keeps
\* its collection
Return ==
  /\ op # "idle"
  /\ op' = "idle"
  /\ args' = NoArgs
  /\ result' = ReturnedNone
  /\ requests' = <<>>
  /\ caller' = <<>>
  /\ UNCHANGED remote

Next ==
  \/ GetVehicles
  \/ FilterVehicles
  \/ GetVehicle
  \/ AddVehicle
  \/ UpdateVehicle
  \/ DeleteVehicle
  \/ GetDistance
  \/ GetNearestVehicle
  \/ Return

Spec == Init /\ [][Next]_vars

\* ------------------------------------------------------------- properties
\* indices of the records whose ID differs from the reference id
Others(coll, id) == {i \in 1..Len(coll) : coll[i].id # Some(id)}

\* distance from the reference record (the one id addresses) to record i
DistanceTo(coll, id, i) ==
  LET ref == coll[RemoteIndex(coll, id)]
  IN _get_distance(Coordinates(ref.latitude, ref.longitude),
                   Coordinates(coll[i].latitude, coll[i].longitude))

NearestCalled == op = "get_nearest_vehicle" /\ RemoteIndex(remote, args.id1) # 0

\* C1: when the reference record exists and some record has another ID,
\* get_nearest_vehicle(id) returns a record of the collection whose ID differs
\* from id and whose distance to the reference is <= that of every other
\* record whose ID differs from id.
C1_NearestIsMinimal ==
  (NearestCalled /\ Others(remote, args.id1) # {}) =>
    /\ result.kind = "Vehicle"
    /\ \E i \in Others(remote, args.id1) :
         /\ result.vehicles[1] = remote[i]
         /\ \A j \in Others(remote, args.id1) :
              DistanceTo(remote, args.id1, i) <= DistanceTo(remote, args.id1, j)

\* a search over two candidates at different distances, the nearer one last
C1_Witness ==
  /\ NearestCalled
  /\ Len(remote) = 3
  /\ RemoteIndex(remote, args.id1) = 1
  /\ DistanceTo(remote, args.id1, 3) < DistanceTo(remote, args.id1, 2)
  /\ result.kind = "Vehicle"
  /\ result.vehicles[1] = remote[3]

\* C2 (as stated): whenever no record has an ID different from the reference
\* id, get_nearest_vehicle(id) returns None and does not raise.
C2_NoCandidateIsNone ==
  (op = "get_nearest_vehicle" /\ Others(remote, args.id1) = {}) =>
    result.kind = "None"

\* C2 (amended): when the reference record exists and no record has an ID
\* different from the reference id, get_nearest_vehicle(id) returns None and
\* does not raise.
C2_OnlyReferenceIsNone ==
  (NearestCalled /\ Others(remote, args.id1) = {}) => result.kind = "None"

C2_Witness ==
  /\ NearestCalled
  /\ Len(remote) = 1
  /\ Others(remote, args.id1) = {}
  /\ result.kind = "None"

\* C3: every vehicle returned by filter_vehicles(params) has, for every
\* key/value pair of params, that value in the field the key names.
C3_FilterMatchesAllKeys ==
  op = "filter_vehicles" =>
    \A n \in 1..Len(result.vehicles) : \A k \in 1..Len(args.params) :
      /\ args.params[k][1] \in DOMAIN result.vehicles[n]
      /\ result.vehicles[n][args.params[k][1]] = args.params[k][2]

Accessors ==
  {"get_vehicles", "filter_vehicles", "get_vehicle", "add_vehicle",
   "update_vehicle", "delete_vehicle"}

Methods(reqs) == [i \in 1..Len(reqs) |-> reqs[i].method]

\* C5 (as stated): each of the six accessor operations issues exactly one
\* HTTP request per call.
C5_OneRequestPerAccessor == op \in Accessors => Len(requests) = 1

\* C5 (amended): get_vehicles, filter_vehicles, get_vehicle, update_vehicle and
\* delete_vehicle issue exactly one HTTP request per call; add_vehicle issues
\* the list GET followed by the POST, and only the GET when it raises.
C5_RequestsPerAccessor ==
  /\ op \in Accessors \ {"add_vehicle"} => Len(requests) = 1
  /\ op = "add_vehicle" =>
       Methods(requests) = IF result.kind = "raise" THEN <<"GET">>
                           ELSE <<"GET", "POST">>

C5_Witness ==
  /\ op = "add_vehicle"
  /\ result.kind = "Vehicle"
  /\ Len(requests) = 2

\* C6: when the remote side answers delete_vehicle(id) with resource-not-found
\* (the id is no longer in the collection, as on a second delete of the same
\* id), delete_vehicle fails instead of returning normally.
C6_DeleteMissingRaises ==
  (op = "delete_vehicle" /\ requests[1].status = 404) => result.kind = "raise"

\* the first index among the candidates at minimum distance
FirstNearest(coll, id) ==
  CHOOSE i \in Others(coll, id) :
    /\ \A j \in Others(coll, id) : DistanceTo(coll, id, i) <= DistanceTo(coll, id, j)
    /\ \A j \in Others(coll, id) :
         DistanceTo(coll, id, j) = DistanceTo(coll, id, i) => i <= j

\* C7: when several candidates are at the same minimum distance from the
\* reference, get_nearest_vehicle returns the one that comes first in the
\* list the remote side returns.
C7_FirstOfTiesWins ==
  (NearestCalled /\ Others(remote, args.id1) # {}) =>
    /\ result.kind = "Vehicle"
    /\ result.vehicles[1] = remote[FirstNearest(remote, args.id1)]

\* two candidates tied at the minimum distance, the first one returned
C7_Witness ==
  /\ NearestCalled
  /\ \E i, j \in Others(remote, args.id1) :
       /\ i < j
       /\ i = FirstNearest(remote, args.id1)
       /\ DistanceTo(remote, args.id1, j) = DistanceTo(remote, args.id1, i)
       /\ remote[i] # remote[j]
       /\ result.kind = "Vehicle"
       /\ result.vehicles[1] = remote[i]

\* C8: for two existing ids, get_distance(id1, id2) equals
\* get_distance(id2, id1) on the same collection.
C8_DistanceSymmetric ==
  (/\ op = "get_distance"
   /\ RemoteIndex(remote, args.id1) # 0
   /\ RemoteIndex(remote, args.id2) # 0) =>
    /\ result.kind = "float"
    /\ result = get_distance(remote, args.id2, args.id1).result

\* a distance between two vehicles at different latitudes and longitudes
C8_Witness ==
  /\ op = "get_distance"
  /\ RemoteIndex(remote, args.id1) # 0
  /\ RemoteIndex(remote, args.id2) # 0
  /\ remote[RemoteIndex(remote, args.id1)].latitude
       # remote[RemoteIndex(remote, args.id2)].latitude
  /\ remote[RemoteIndex(remote, args.id1)].longitude
       # remote[RemoteIndex(remote, args.id2)].longitude
  /\ result.kind = "float"
  /\ result.value > 0

\* C9: in every state of the collection add_vehicle(record) sends the create
\* request and returns the created record with a non-null ID.
C9_AddAlwaysCreates ==
  op = "add_vehicle" =>
    /\ result.kind = "Vehicle"
    /\ result.vehicles[1].id # None
    /\ \E i \in 1..Len(requests) : requests[i].method = "POST"

\* C10: add_vehicle(record) leaves the caller's record object as it was
\* passed.
C10_AddLeavesArgument == op = "add_vehicle" => caller = args.vehicle

====
